---------------------------- MODULE Spec2Model ----------------------------
(***************************************************************************)
(* sensu-microsoft-teams-handler: one invocation of the handler.           *)
(*                                                                         *)
(* The repository holds two copies of the program: src/main.go and         *)
(* src/unnamed/part_000.  Both are package main with the same pipeline     *)
(* (configureRootCommand, run, sendMessage, NewEventMessage); they differ  *)
(* in the flag bindings and in NewEventMessage.  The variable `build`      *)
(* says which copy is running.                                             *)
(*                                                                         *)
(* A Go string is a finite sequence of tokens.  A token is one of the      *)
(* lexemes of Special, or a "word": a run of characters that holds none of *)
(* them (in a name: letters, digits, '.', '-', '_').  The empty string is  *)
(* << >>.                                                                  *)
(***************************************************************************)
EXTENDS Integers, Sequences, FiniteSets, TLC

VARIABLES build, pc, args, webhookURL, channel, dashboard, actionName,
          flagDashboard, stdinRead, eventJSON, event, message, req, resp,
          httpCalls, err, exitCode, logged

vars == <<build, pc, args, webhookURL, channel, dashboard, actionName,
          flagDashboard, stdinRead, eventJSON, event, message, req, resp,
          httpCalls, err, exitCode, logged>>

-----------------------------------------------------------------------------
(* Strings                                                                 *)

\* ":" "//" "/" are URL punctuation, " " a space, "%" a percent sign that is
\* not followed by two hex digits, "CTL" an ASCII control character (a
\* newline), and "%20" "%25" "%2F" "%0A" the percent-escapes of space, percent,
\* slash and newline.
Special == {":", "//", "/", " ", "%", "CTL", "%20", "%25", "%2F", "%0A"}

IsWord(t) == t \notin Special

Str(t) == <<t>>

Empty == << >>

\* the index of the first token of s that satisfies one of `toks`, 0 if none
RECURSIVE IndexFrom(_, _, _)
IndexFrom(s, toks, i) ==
    IF i > Len(s) THEN 0
    ELSE IF s[i] \in toks THEN i
    ELSE IndexFrom(s, toks, i + 1)

IndexAny(s, toks) == IndexFrom(s, toks, 1)

\* the index of the last token of s that is in `toks`, 0 if none
RECURSIVE LastIndexFrom(_, _, _)
LastIndexFrom(s, toks, i) ==
    IF i < 1 THEN 0
    ELSE IF s[i] \in toks THEN i
    ELSE LastIndexFrom(s, toks, i - 1)

LastIndexAny(s, toks) == LastIndexFrom(s, toks, Len(s))

Tail0(s, n) == SubSeq(s, n + 1, Len(s))   \* s[n:]

Head0(s, n) == SubSeq(s, 1, n)            \* s[:n]


-----------------------------------------------------------------------------
(* net/url, as used by getLink, NewEventMessage and http.NewRequest        *)

\* url.unescape in path mode: decodes the percent-escapes
RECURSIVE unescape(_)
unescape(s) ==
    IF s = Empty THEN Empty
    ELSE LET t == Head(s)
             d == CASE t = "%20" -> Str(" ")
                    [] t = "%25" -> Str("%")
                    [] t = "%2F" -> Str("/")
                    [] t = "%0A" -> Str("CTL")
                    [] OTHER     -> Str(t)
         IN d \o unescape(Tail(s))

\* url.escape in mode encodePath ('/' and ':' are left alone)
RECURSIVE escapePath(_)
escapePath(s) ==
    IF s = Empty THEN Empty
    ELSE LET t == Head(s)
             e == CASE t = " "   -> Str("%20")
                    [] t = "%"   -> Str("%25")
                    [] t = "CTL" -> Str("%0A")
                    [] OTHER     -> Str(t)
         IN e \o escapePath(Tail(s))

\* url.PathEscape: url.escape in mode encodePathSegment ('/' is escaped too)
RECURSIVE PathEscape(_)
PathEscape(s) ==
    IF s = Empty THEN Empty
    ELSE LET t == Head(s)
             e == CASE t = " "   -> Str("%20")
                    [] t = "%"   -> Str("%25")
                    [] t = "CTL" -> Str("%0A")
                    [] t = "/"   -> Str("%2F")
                    [] t = "//"  -> <<"%2F", "%2F">>
                    [] OTHER     -> Str(t)
         IN e \o PathEscape(Tail(s))

HasTok(s, toks) == \E i \in DOMAIN s : s[i] \in toks

\* the zero url.URL
ZeroURL == [Scheme |-> Empty, Opaque |-> Empty, Host |-> Empty,
            Path |-> Empty, RawPath |-> Empty]

ParseError == [ok |-> FALSE, url |-> ZeroURL]

\* URL.setPath: Path is the decoded path, RawPath is kept only when it is not
\* the default encoding of Path
setPath(u, p) ==
    [u EXCEPT !.Path = unescape(p),
              !.RawPath = IF escapePath(unescape(p)) = p THEN Empty ELSE p]

\* url.validEncoded / URL.EscapedPath
EscapedPath(u) ==
    IF /\ u.RawPath # Empty
       /\ ~HasTok(u.RawPath, {" ", "CTL"})
       /\ unescape(u.RawPath) = u.Path
    THEN u.RawPath
    ELSE escapePath(u.Path)

\* url.Parse (url.parse with viaRequest = false; query, fragment and
\* userinfo do not occur in the strings of this model)
Parse(rawurl) ==
    IF HasTok(rawurl, {"CTL"}) THEN ParseError          \* invalid control character in URL
    ELSE IF rawurl # Empty /\ rawurl[1] = ":" THEN ParseError   \* missing protocol scheme
    ELSE
    LET hasScheme == Len(rawurl) >= 2 /\ IsWord(rawurl[1]) /\ rawurl[2] = ":"
        scheme    == IF hasScheme THEN Str(rawurl[1]) ELSE Empty
        rest      == IF hasScheme THEN Tail0(rawurl, 2) ELSE rawurl
        rooted    == rest # Empty /\ rest[1] \in {"/", "//"}
    IN
    IF ~rooted /\ hasScheme
    THEN [ok |-> TRUE, url |-> [ZeroURL EXCEPT !.Scheme = scheme, !.Opaque = rest]]
    ELSE IF /\ ~rooted
            /\ LET c == IndexAny(rest, {":"})
                   sl == IndexAny(rest, {"/", "//"})
               IN c > 0 /\ (sl = 0 \/ c < sl)
    THEN ParseError                      \* first path segment in URL cannot contain colon
    ELSE
    LET hasAuth == /\ rest # Empty /\ rest[1] = "//"
                   /\ (hasScheme \/ ~(Len(rest) >= 2 /\ rest[2] = "/"))
        afterSl == IF hasAuth THEN Tail0(rest, 1) ELSE rest
        i       == IndexAny(afterSl, {"/", "//"})
        host    == IF ~hasAuth THEN Empty
                   ELSE IF i = 0 THEN afterSl ELSE Head0(afterSl, i - 1)
        path    == IF ~hasAuth THEN rest
                   ELSE IF i = 0 THEN Empty ELSE Tail0(afterSl, i - 1)
    IN
    IF \E k \in DOMAIN host : ~IsWord(host[k]) THEN ParseError   \* invalid host
    ELSE IF HasTok(path, {"%"}) THEN ParseError                  \* invalid URL escape
    ELSE [ok |-> TRUE,
          url |-> setPath([ZeroURL EXCEPT !.Scheme = scheme, !.Host = host], path)]

\* URL.String
String(u) ==
    LET s == IF u.Scheme # Empty THEN u.Scheme \o Str(":") ELSE Empty
    IN
    IF u.Opaque # Empty THEN s \o u.Opaque
    ELSE
    LET auth == IF u.Scheme # Empty \/ u.Host # Empty
                THEN (IF u.Host # Empty \/ u.Path # Empty THEN Str("//") ELSE Empty)
                     \o u.Host
                ELSE Empty
        p    == EscapedPath(u)
        sep  == IF p # Empty /\ p[1] \notin {"/", "//"} /\ u.Host # Empty
                THEN Str("/") ELSE Empty
    IN s \o auth \o sep \o p

\* url.resolvePath; the strings of this model hold no "." or ".." segments,
\* so removing dot segments only roots the result
resolvePath(base, ref) ==
    LET full == IF ref = Empty THEN base
                ELSE IF ref[1] \notin {"/", "//"}
                     THEN Head0(base, LastIndexAny(base, {"/", "//"})) \o ref
                     ELSE ref
    IN IF full = Empty THEN Empty
       ELSE IF full[1] \in {"/", "//"} THEN full
       ELSE Str("/") \o full

\* URL.ResolveReference
ResolveReference(u, ref) ==
    LET url == IF ref.Scheme = Empty THEN [ref EXCEPT !.Scheme = u.Scheme] ELSE ref
    IN
    IF ref.Scheme # Empty \/ ref.Host # Empty
    THEN setPath(url, resolvePath(EscapedPath(ref), Empty))
    ELSE IF ref.Opaque # Empty
    THEN [url EXCEPT !.Host = Empty, !.Path = Empty]
    ELSE setPath([url EXCEPT !.Host = u.Host],
                 resolvePath(EscapedPath(u), EscapedPath(ref)))

-----------------------------------------------------------------------------
(* Values                                                                  *)

Nil == [nil |-> TRUE]                   \* a nil pointer, a nil error

Absent == [absent |-> TRUE]             \* a JSON key that is missing or null

NotSet == [set |-> FALSE, value |-> Empty]      \* a flag not on the command line

Flag(v) == [set |-> TRUE, value |-> v]

NoPayload == [form |-> "none"]

\* a Go error: the text of Error(), and the bytes formatted into it with %s
Error(text, payload) == [nil |-> FALSE, text |-> text, payload |-> payload]

-----------------------------------------------------------------------------
(* Inputs of one invocation                                                *)

Builds == {"main.go", "part_000"}

MaxArgs == 1

MaxStatus == 3

WebhookURLs ==
    { Empty,
      <<"https", ":", "//", "hooks.example.com", "/", "webhook">>,
      <<"https", ":", "//", "hooks.example.com", "/", "webhook", "CTL">>,
      <<"hooks.example.com", "/", "webhook">> }

ChannelFlags == {NotSet, Flag(Str("#alerts"))}

ActionNameFlags == {NotSet, Flag(Str("Open"))}

DashboardFlags ==
    { NotSet,
      Flag(<<"https", ":", "//", "dash.example.com", "/">>),
      Flag(<<"http", ":", "//", "dash.example.com", "/", "sensu", "/", "ui">>),
      Flag(<<"dash.example.com">>),
      Flag(<<":", "//", "dash.example.com">>),
      Flag(<<"https", ":", "//", "dash.example.com", "/", "%">>) }

EntityNames == {Empty, Str("web01"), <<"web", " ", "01">>}

Namespaces == {Empty, Str("default"), <<"ops", "%", "zz">>}

CheckNames == {Empty, Str("cpu")}

Statuses == (-1 .. MaxStatus) \cup {999}

Outputs == {Empty, <<"disk", " ", "full">>}

Intervals == {0, 60}

EntityJSON ==
    {Absent} \cup
    [absent : {FALSE}, name : EntityNames, entity_class : {Str("agent")},
     namespace : Namespaces]

CheckJSON ==
    {Absent} \cup
    [absent : {FALSE}, name : CheckNames, status : Statuses, output : Outputs,
     interval : Intervals]

\* the bytes on standard input: a truncated document such as {"entity": or a
\* JSON object with the keys "entity" and "check"
Truncated == [form |-> "truncated"]

StdinBytes ==
    {Truncated} \cup [form : {"object"}, entity : EntityJSON, check : CheckJSON]

ResponseStatuses == {200, 404, 500}

-----------------------------------------------------------------------------
(* github.com/sensu/sensu-go/types, as used by run and NewEventMessage     *)

\* json.Unmarshal into types.Event.  Entity and Check are pointers; Status
\* and Interval are uint32, so a negative number does not decode (the upper
\* end of uint32 is above every number of this model).
Unmarshal(data) ==
    IF data.form # "object" THEN [ok |-> FALSE, event |-> Nil]
    ELSE IF ~data.check.absent /\ (data.check.status < 0 \/ data.check.interval < 0)
    THEN [ok |-> FALSE, event |-> Nil]
    ELSE [ok |-> TRUE,
          event |->
            [Entity |-> IF data.entity.absent THEN Nil
                        ELSE [nil |-> FALSE, Name |-> data.entity.name,
                              EntityClass |-> data.entity.entity_class,
                              Namespace |-> data.entity.namespace],
             Check |-> IF data.check.absent THEN Nil
                       ELSE [nil |-> FALSE, Name |-> data.check.name,
                             Status |-> data.check.status,
                             Output |-> data.check.output,
                             Interval |-> data.check.interval]]]

\* types.ValidateName
ValidateName(name) ==
    IF name = Empty THEN Error(Str("name must not be empty"), NoPayload)
    ELSE IF \E i \in DOMAIN name : ~IsWord(name[i])
    THEN Error(Str("name cannot contain spaces or special characters"), NoPayload)
    ELSE Nil

\* (*Entity).Validate
EntityValidate(e) ==
    IF ~ValidateName(e.Name).nil
    THEN Error(Str("entity name ") \o ValidateName(e.Name).text, NoPayload)
    ELSE IF ~ValidateName(e.EntityClass).nil
    THEN Error(Str("entity class ") \o ValidateName(e.EntityClass).text, NoPayload)
    ELSE IF e.Namespace = Empty
    THEN Error(Str("namespace must be set"), NoPayload)
    ELSE Nil

\* (*Check).Validate
CheckValidate(c) ==
    IF ~ValidateName(c.Name).nil
    THEN Error(Str("check name ") \o ValidateName(c.Name).text, NoPayload)
    ELSE IF c.Interval < 1
    THEN Error(Str("check interval must be greater than or equal to 1"), NoPayload)
    ELSE Nil

\* (*Event).URIPath
URIPath(e) ==
    IF e.Check.nil THEN Empty
    ELSE <<"/", "api", "/", "core", "/", "v2", "/", "namespaces", "/">>
         \o PathEscape(e.Entity.Namespace) \o <<"/", "events", "/">>
         \o PathEscape(e.Entity.Name) \o Str("/") \o PathEscape(e.Check.Name)

-----------------------------------------------------------------------------
(* src/unnamed/part_000                                                    *)

\* getColor with the default branch lost: every status from 2 on is critical
getColorTwoOrMore(e) ==
    CASE e.Check.Status = 0 -> Str("#36A64F")
      [] e.Check.Status = 1 -> Str("#FFCC00")
      [] OTHER              -> Str("#FF0000")

getColor(e) ==
    CASE e.Check.Status = 0 -> Str("#36A64F")
      [] e.Check.Status = 1 -> Str("#FFCC00")
      [] e.Check.Status = 2 -> Str("#FF0000")
      [] OTHER              -> Str("#6600CC")

getMessageStatus(e) ==
    CASE e.Check.Status = 0 -> Str("RESOLVED")
      [] e.Check.Status = 1 -> Str("WARNING")
      [] e.Check.Status = 2 -> Str("CRITICAL")
      [] OTHER              -> Str("UNKNOWN")

\* getLink with the two parse errors dropped, as main.go drops its one
getLinkNoFallback(e) ==
    String(ResolveReference(Parse(dashboard).url, Parse(URIPath(e)).url))

getLink(e) ==
    IF ~Parse(dashboard).ok THEN Empty
    ELSE IF ~Parse(URIPath(e)).ok THEN Empty
    ELSE String(ResolveReference(Parse(dashboard).url, Parse(URIPath(e)).url))

NewEventMessage(e) ==
    [ok |-> TRUE,
     message |->
       [ThemeColor |-> getColor(e), Text |-> getMessageStatus(e), Channel |-> channel,
        Sections |-> << [Text |-> e.Check.Output] >>,
        PotentialAction |->
          << [Type |-> Str("OpenUri"), Name |-> <<"View", " ", "in", " ", "Sensu">>,
              Targets |-> << [OS |-> Str("default"), URI |-> getLink(e)] >>] >>]]

-----------------------------------------------------------------------------
(* src/main.go                                                             *)

\* var dashboard url.URL: no flag is bound to it, it stays the zero URL
dashboardURL == ZeroURL

\* --bot-name and --icon-url, left at their defaults
botName == Empty

iconURL ==
    <<"http", ":", "//", "s3-us-west-2.amazonaws.com", "/", "sensuapp.org", "/",
      "sensu.png">>

\* url.Parse's error is dropped: on a parse error eventPath is nil and
\* ResolveReference dereferences it
NewEventMessageMainGo(e) ==
    IF ~Parse(URIPath(e)).ok THEN [ok |-> FALSE, message |-> Nil]
    ELSE
    LET eventLink == String(ResolveReference(dashboardURL, Parse(URIPath(e)).url))
    IN [ok |-> TRUE,
        message |->
          [ThemeColor |-> Str("red"), Text |-> eventLink, Channel |-> channel,
           Username |-> botName,
           Sections |-> << [ActivityImage |-> iconURL,
                            Text |-> e.Check.Output] >>,
           PotentialAction |->
             << [Type |-> Str("OpenUri"), Name |-> <<"View", " ", "in", " ", "Sensu">>,
                 Targets |-> << [OS |-> Str("default"), URI |-> eventLink] >>] >>]]

-----------------------------------------------------------------------------
(* encoding/json on Message, by the struct tags of each copy               *)

MarshalActions(actions) ==
    [i \in DOMAIN actions |->
        ("@type" :> actions[i].Type) @@ ("name" :> actions[i].Name) @@
        ("targets" :> [j \in DOMAIN actions[i].Targets |->
                          [os |-> actions[i].Targets[j].OS,
                           uri |-> actions[i].Targets[j].URI]])]

Marshal(m) ==
    [themeColor |-> m.ThemeColor, text |-> m.Text, channel |-> m.Channel,
     section |-> [i \in DOMAIN m.Sections |-> [text |-> m.Sections[i].Text]],
     PotentialAction |-> MarshalActions(m.PotentialAction)]

MarshalMainGo(m) ==
    [themeColor |-> m.ThemeColor, text |-> m.Text, channel |-> m.Channel,
     username |-> m.Username,
     section |-> [i \in DOMAIN m.Sections |->
                    [activityImage |-> m.Sections[i].ActivityImage,
                     text |-> m.Sections[i].Text]],
     PotentialAction |-> MarshalActions(m.PotentialAction)]

-----------------------------------------------------------------------------
(* The invocation: main, configureRootCommand, run, sendMessage            *)

Init ==
    /\ build \in Builds
    /\ pc = "main"
    /\ args = 0
    /\ webhookURL = Empty
    /\ channel = Empty
    /\ dashboard = Empty
    /\ actionName = Empty
    /\ flagDashboard = NotSet
    /\ stdinRead = FALSE
    /\ eventJSON = NoPayload
    /\ event = Nil
    /\ message = Nil
    /\ req = Nil
    /\ resp = Nil
    /\ httpCalls = 0
    /\ err = Nil
    /\ exitCode = -1
    /\ logged = FALSE

\* run returns e to main
Return(e) ==
    /\ err' = e
    /\ pc' = "returned"
    /\ UNCHANGED <<exitCode, logged>>

\* a Go panic that nothing recovers: the runtime prints the panic value and
\* the goroutine trace to stderr and exits with status 2; log is not used
Panic(e) ==
    /\ err' = e
    /\ pc' = "exit"
    /\ exitCode' = 2
    /\ logged' = FALSE

NilDereference ==
    Error(Str("runtime error: invalid memory address or nil pointer dereference"),
          NoPayload)

\* configureRootCommand and cobra's flag parsing in rootCmd.Execute.  In
\* main.go the "dashboard" flag is bound to actionName: registering it resets
\* actionName to "", and the last of -a / -d on the command line wins.
ConfigureRootCommand ==
    /\ pc = "main"
    /\ \E w \in WebhookURLs, c \in ChannelFlags, a \in ActionNameFlags,
          d \in DashboardFlags, n \in 0 .. MaxArgs :
          /\ webhookURL' = w
          /\ channel' = IF c.set THEN c.value ELSE Str("#general")
          /\ flagDashboard' = d
          /\ args' = n
          /\ IF build = "part_000"
             THEN /\ actionName' = IF a.set THEN a.value
                                   ELSE <<"View", " ", "in", " ", "Sensu">>
                  /\ dashboard' = IF d.set THEN d.value ELSE Empty
             ELSE /\ actionName' \in
                        IF ~a.set /\ ~d.set THEN {Empty}
                        ELSE {f.value : f \in {g \in {a, d} : g.set}}
                  /\ dashboard' = Empty
    /\ pc' = "run"
    /\ UNCHANGED <<build, stdinRead, eventJSON, event, message, req, resp,
                   httpCalls, err, exitCode, logged>>

\* run without the check on webhookURL
RunPreconditionsNoWebhookCheck ==
    /\ pc = "run"
    /\ IF args # 0
       THEN Return(Error(Str("invalid argument(s) received"), NoPayload))
       ELSE /\ pc' = "read"
            /\ UNCHANGED <<err, exitCode, logged>>
    /\ UNCHANGED <<build, args, webhookURL, channel, dashboard, actionName,
                   flagDashboard, stdinRead, eventJSON, event, message, req,
                   resp, httpCalls>>

\* run: the checks on args and on webhookURL
RunPreconditions ==
    /\ pc = "run"
    /\ IF args # 0
       THEN Return(Error(Str("invalid argument(s) received"), NoPayload))
       ELSE IF webhookURL = Empty
       THEN Return(Error(Str("webhook url is empty"), NoPayload))
       ELSE /\ pc' = "read"
            /\ UNCHANGED <<err, exitCode, logged>>
    /\ UNCHANGED <<build, args, webhookURL, channel, dashboard, actionName,
                   flagDashboard, stdinRead, eventJSON, event, message, req,
                   resp, httpCalls>>

ReadFailure == [form |-> "unreadable"]

\* run: ioutil.ReadAll(stdin)
ReadStdin ==
    /\ pc = "read"
    /\ stdinRead' = TRUE
    /\ \E data \in StdinBytes \cup {ReadFailure} :
          IF data = ReadFailure
          THEN /\ Return(Error(Str("failed to read stdin: ") \o Str("read error"),
                               NoPayload))
               /\ UNCHANGED eventJSON
          ELSE /\ eventJSON' = data
               /\ pc' = "unmarshal"
               /\ UNCHANGED <<err, exitCode, logged>>
    /\ UNCHANGED <<build, args, webhookURL, channel, dashboard, actionName,
                   flagDashboard, event, message, req, resp, httpCalls>>

\* run reporting the decoding failure without the bytes it read
UnmarshalEventNoPayload ==
    /\ pc = "unmarshal"
    /\ IF Unmarshal(eventJSON).ok
       THEN /\ event' = Unmarshal(eventJSON).event
            /\ pc' = "validateEntity"
            /\ UNCHANGED <<err, exitCode, logged>>
       ELSE /\ Return(Error(Str("failed to unmarshal stdin data: "), NoPayload))
            /\ UNCHANGED event
    /\ UNCHANGED <<build, args, webhookURL, channel, dashboard, actionName,
                   flagDashboard, stdinRead, eventJSON, message, req, resp,
                   httpCalls>>

\* run: json.Unmarshal(eventJSON, event)
UnmarshalEvent ==
    /\ pc = "unmarshal"
    /\ IF Unmarshal(eventJSON).ok
       THEN /\ event' = Unmarshal(eventJSON).event
            /\ pc' = "validateEntity"
            /\ UNCHANGED <<err, exitCode, logged>>
       ELSE /\ Return(Error(Str("failed to unmarshal stdin data: "), eventJSON))
            /\ UNCHANGED event
    /\ UNCHANGED <<build, args, webhookURL, channel, dashboard, actionName,
                   flagDashboard, stdinRead, eventJSON, message, req, resp,
                   httpCalls>>

\* run: event.Entity.Validate(); Validate reads e.Name through the pointer
ValidateEntity ==
    /\ pc = "validateEntity"
    /\ IF event.Entity.nil THEN Panic(NilDereference)
       ELSE IF ~EntityValidate(event.Entity).nil
       THEN Return(EntityValidate(event.Entity))
       ELSE /\ pc' = "validateCheck"
            /\ UNCHANGED <<err, exitCode, logged>>
    /\ UNCHANGED <<build, args, webhookURL, channel, dashboard, actionName,
                   flagDashboard, stdinRead, eventJSON, event, message, req,
                   resp, httpCalls>>

\* run calling event.Check.Validate() and dropping its error
ValidateCheckIgnored ==
    /\ pc = "validateCheck"
    /\ IF event.Check.nil THEN Panic(NilDereference)
       ELSE /\ pc' = "sendMessage"
            /\ UNCHANGED <<err, exitCode, logged>>
    /\ UNCHANGED <<build, args, webhookURL, channel, dashboard, actionName,
                   flagDashboard, stdinRead, eventJSON, event, message, req,
                   resp, httpCalls>>

\* run: event.Check.Validate()
ValidateCheck ==
    /\ pc = "validateCheck"
    /\ IF event.Check.nil THEN Panic(NilDereference)
       ELSE IF ~CheckValidate(event.Check).nil
       THEN Return(CheckValidate(event.Check))
       ELSE /\ pc' = "sendMessage"
            /\ UNCHANGED <<err, exitCode, logged>>
    /\ UNCHANGED <<build, args, webhookURL, channel, dashboard, actionName,
                   flagDashboard, stdinRead, eventJSON, event, message, req,
                   resp, httpCalls>>

\* sendMessage: NewEventMessage(event) and json.Marshal
ComposeMessage ==
    /\ pc = "sendMessage"
    /\ LET r == IF build = "part_000" THEN NewEventMessage(event)
                ELSE NewEventMessageMainGo(event)
       IN IF r.ok
          THEN /\ message' = r.message
               /\ pc' = "newRequest"
               /\ UNCHANGED <<err, exitCode, logged>>
          ELSE /\ Panic(NilDereference)
               /\ UNCHANGED message
    /\ UNCHANGED <<build, args, webhookURL, channel, dashboard, actionName,
                   flagDashboard, stdinRead, eventJSON, event, req, resp,
                   httpCalls>>

\* sendMessage: http.NewRequest, whose error is overwritten unread, and
\* req.Header.Set, which dereferences req
NewRequest ==
    /\ pc = "newRequest"
    /\ IF Parse(webhookURL).ok
       THEN /\ req' = [nil |-> FALSE, Method |-> "POST",
                       URL |-> Parse(webhookURL).url,
                       ContentType |-> "application/json",
                       Body |-> IF build = "part_000" THEN Marshal(message)
                                ELSE MarshalMainGo(message)]
            /\ pc' = "do"
            /\ UNCHANGED <<err, exitCode, logged>>
       ELSE /\ req' = Nil
            /\ Panic(NilDereference)
    /\ UNCHANGED <<build, args, webhookURL, channel, dashboard, actionName,
                   flagDashboard, stdinRead, eventJSON, event, message, resp,
                   httpCalls>>

TransportError == [nil |-> TRUE, StatusCode |-> 0]

\* the transport can only send to an http or https URL with a host
Sendable(r) == r.URL.Scheme \in {Str("http"), Str("https")} /\ r.URL.Host # Empty

\* sendMessage calling client.Do a second time after a first transport error
ClientDoRetryOnce ==
    /\ pc = "do"
    /\ httpCalls' = httpCalls + 1
    /\ \E r \in {TransportError} \cup
                (IF Sendable(req)
                 THEN [nil : {FALSE}, StatusCode : ResponseStatuses] ELSE {}) :
          IF r.nil
          THEN /\ IF httpCalls = 0
                  THEN pc' = "do" /\ UNCHANGED <<err, exitCode, logged>>
                  ELSE Panic(Error(Str("transport error"), NoPayload))
               /\ UNCHANGED resp
          ELSE /\ resp' = r
               /\ Return(Nil)
    /\ UNCHANGED <<build, args, webhookURL, channel, dashboard, actionName,
                   flagDashboard, stdinRead, eventJSON, event, message, req>>

\* sendMessage with the TODO done: a status other than 200 is an error
ClientDoAssert200 ==
    /\ pc = "do"
    /\ httpCalls' = httpCalls + 1
    /\ \E r \in {TransportError} \cup
                (IF Sendable(req)
                 THEN [nil : {FALSE}, StatusCode : ResponseStatuses] ELSE {}) :
          IF r.nil
          THEN /\ Panic(Error(Str("transport error"), NoPayload))
               /\ UNCHANGED resp
          ELSE /\ resp' = r
               /\ IF r.StatusCode = 200 THEN Return(Nil)
                  ELSE Return(Error(Str("unexpected response status"), NoPayload))
    /\ UNCHANGED <<build, args, webhookURL, channel, dashboard, actionName,
                   flagDashboard, stdinRead, eventJSON, event, message, req>>

\* sendMessage: client.Do(req), panic(err) on an error, the deferred
\* resp.Body.Close() (which returns nil for a body that was never read),
\* return nil; back in run, return nil
ClientDo ==
    /\ pc = "do"
    /\ httpCalls' = httpCalls + 1
    /\ \E r \in {TransportError} \cup
                (IF Sendable(req)
                 THEN [nil : {FALSE}, StatusCode : ResponseStatuses] ELSE {}) :
          IF r.nil
          THEN /\ Panic(Error(Str("transport error"), NoPayload))
               /\ UNCHANGED resp
          ELSE /\ resp' = r
               /\ Return(Nil)
    /\ UNCHANGED <<build, args, webhookURL, channel, dashboard, actionName,
                   flagDashboard, stdinRead, eventJSON, event, message, req>>

\* main: log.Fatal(err.Error()) when Execute returns an error
MainExit ==
    /\ pc = "returned"
    /\ pc' = "exit"
    /\ IF err.nil
       THEN exitCode' = 0 /\ logged' = FALSE
       ELSE exitCode' = 1 /\ logged' = TRUE
    /\ UNCHANGED <<build, args, webhookURL, channel, dashboard, actionName,
                   flagDashboard, stdinRead, eventJSON, event, message, req,
                   resp, httpCalls, err>>

Next ==
    \/ ConfigureRootCommand
    \/ RunPreconditions
    \/ ReadStdin
    \/ UnmarshalEvent
    \/ ValidateEntity
    \/ ValidateCheck
    \/ ComposeMessage
    \/ NewRequest
    \/ ClientDo
    \/ MainExit

Spec == Init /\ [][Next]_vars

-----------------------------------------------------------------------------
(* Properties                                                              *)

Returned == pc \in {"returned", "exit"}

Terminated == pc = "exit"

EntityOK == event # Nil /\ ~event.Entity.nil /\ EntityValidate(event.Entity).nil

CheckOK == event # Nil /\ ~event.Check.nil /\ CheckValidate(event.Check).nil

\* a document that decodes, up to its status, into an event that validates
ValidInput(doc) ==
    /\ doc.form = "object"
    /\ ~doc.entity.absent
    /\ ~doc.check.absent
    /\ ValidateName(doc.entity.name).nil
    /\ ValidateName(doc.entity.entity_class).nil
    /\ doc.entity.namespace # Empty
    /\ ValidateName(doc.check.name).nil
    /\ doc.check.interval >= 1

\* the documented status mapping
DocumentedColor(s) ==
    IF s = 0 THEN Str("#36A64F")
    ELSE IF s = 1 THEN Str("#FFCC00")
    ELSE IF s = 2 THEN Str("#FF0000")
    ELSE Str("#6600CC")

DocumentedLabel(s) ==
    IF s = 0 THEN Str("RESOLVED")
    ELSE IF s = 1 THEN Str("WARNING")
    ELSE IF s = 2 THEN Str("CRITICAL")
    ELSE Str("UNKNOWN")

\* http.NewRequest returned an error: the message was composed, the run is
\* over and no request exists
RequestNotConstructed == Terminated /\ message # Nil /\ req = Nil

\* client.Do returned an error: it was called and no response exists
RequestNotExecuted == Terminated /\ httpCalls > 0 /\ resp = Nil

\* C1: a message is composed, a request built and an HTTP call made only when
\* args, the webhook URL, the read, the decoding and both validations passed;
\* when entity validation fails run returns the entity validator's error as it
\* is (whatever the check looks like: the entity is validated first), when
\* check validation fails it returns the check validator's error as it is, and
\* in both cases no message is composed and no HTTP call is made.
C1_ValidationGuardsSend ==
    /\ (message # Nil \/ req # Nil \/ httpCalls > 0) =>
          /\ args = 0 /\ webhookURL # Empty /\ stdinRead
          /\ Unmarshal(eventJSON).ok
          /\ EntityOK /\ CheckOK
    /\ (Returned /\ event # Nil /\ ~event.Entity.nil
          /\ ~EntityValidate(event.Entity).nil) =>
          /\ err = EntityValidate(event.Entity)
          /\ message = Nil /\ req = Nil /\ httpCalls = 0
    /\ (Returned /\ EntityOK /\ ~event.Check.nil
          /\ ~CheckValidate(event.Check).nil) =>
          /\ err = CheckValidate(event.Check)
          /\ message = Nil /\ req = Nil /\ httpCalls = 0

C1_Witness ==
    /\ Terminated /\ event # Nil /\ ~event.Entity.nil /\ ~event.Check.nil
    /\ ~EntityValidate(event.Entity).nil /\ ~CheckValidate(event.Check).nil
    /\ err = EntityValidate(event.Entity)
    /\ exitCode = 1 /\ httpCalls = 0

\* C2: once the flags are parsed with an empty webhook URL, stdin is never
\* read and no HTTP call is made; run returns an error, which is "webhook url
\* is empty" unless positional arguments were rejected first, and the process
\* exits with status 1.
C2_EmptyWebhookStopsBeforeStdin ==
    (pc # "main" /\ webhookURL = Empty) =>
        /\ pc \in {"run", "returned", "exit"}
        /\ ~stdinRead /\ eventJSON = NoPayload /\ event = Nil
        /\ message = Nil /\ req = Nil /\ httpCalls = 0
        /\ Returned => /\ ~err.nil
                       /\ err.text \in {Str("webhook url is empty"),
                                        Str("invalid argument(s) received")}
                       /\ args = 0 => err.text = Str("webhook url is empty")
        /\ Terminated => exitCode = 1 /\ logged

C2_Witness ==
    /\ Terminated /\ webhookURL = Empty /\ args = 0
    /\ err.text = Str("webhook url is empty")
    /\ ~stdinRead /\ httpCalls = 0 /\ exitCode = 1

\* C3: when the bytes read from stdin do not decode as an event, run returns
\* the error "failed to unmarshal stdin data: " followed by those bytes; the
\* event is never validated, no message is composed, no request is built and
\* no HTTP call is made.
C3_DecodeFailureIsInputError ==
    (stdinRead /\ eventJSON # NoPayload /\ ~Unmarshal(eventJSON).ok) =>
        /\ pc \in {"unmarshal", "returned", "exit"}
        /\ event = Nil /\ message = Nil /\ req = Nil /\ httpCalls = 0
        /\ Returned => /\ err.text = Str("failed to unmarshal stdin data: ")
                       /\ err.payload = eventJSON
        /\ Terminated => exitCode = 1 /\ logged

C3_Witness ==
    /\ Terminated /\ eventJSON = Truncated
    /\ err.payload = Truncated /\ exitCode = 1 /\ httpCalls = 0

\* the executions C4 speaks of
C4_Pipeline ==
    /\ Terminated /\ webhookURL # Empty /\ stdinRead
    /\ eventJSON # NoPayload /\ Unmarshal(eventJSON).ok
    /\ EntityOK /\ CheckOK

\* C4 as stated: at most one HTTP call, and exactly one whenever the webhook
\* URL is non-empty, stdin is read and decoded and entity and check validate.
C4_Original ==
    /\ httpCalls <= 1
    /\ C4_Pipeline => httpCalls = 1

\* C4, amended: at most one HTTP call, and exactly one whenever the webhook
\* URL is non-empty and parses as a URL, stdin is read and decoded and entity
\* and check validate; with a webhook URL that does not parse there is none.
\* Nothing follows the call: the run is over after a response and after a
\* transport failure alike.
C4_Amended ==
    /\ httpCalls <= 1
    /\ (C4_Pipeline /\ Parse(webhookURL).ok) => httpCalls = 1
    /\ (C4_Pipeline /\ ~Parse(webhookURL).ok) => httpCalls = 0
    /\ httpCalls = 1 => Returned

C4_Witness ==
    /\ C4_Pipeline /\ Parse(webhookURL).ok
    /\ httpCalls = 1 /\ resp = Nil /\ exitCode = 2

\* C5: when the request cannot be constructed or cannot be executed, the
\* process ends as on every other fatal error: the error is logged and the
\* exit status is 1; an unconstructed request is never used.
C5_SendFailureIsLoggedFatal ==
    (RequestNotConstructed \/ RequestNotExecuted) =>
        logged /\ exitCode = 1 /\ err # NilDereference

\* link resolution fails when one of the URLs that the composer parses does
\* not parse: dashboard and the event's path in part_000, the event's path
\* in main.go
LinkResolutionFails ==
    /\ EntityOK /\ CheckOK
    /\ pc \notin {"validateEntity", "validateCheck", "sendMessage"}
    /\ \/ ~Parse(URIPath(event)).ok
       \/ build = "part_000" /\ ~Parse(dashboard).ok

C8_MessageFields ==
    message # Nil =>
        /\ message.ThemeColor = DocumentedColor(event.Check.Status)
        /\ message.Text = DocumentedLabel(event.Check.Status)
        /\ message.Channel = channel
        /\ Len(message.Sections) = 1
        /\ message.Sections[1].Text = event.Check.Output

\* C9: every composed message has exactly one action, of type OpenUri, with
\* exactly one target, of os "default"; its uri is empty when the URL given
\* with the dashboard flag does not parse, and otherwise is a URL with the
\* scheme and the host of the flag's URL and the event's path.
C9_ActionTarget ==
    message # Nil =>
        /\ Len(message.PotentialAction) = 1
        /\ message.PotentialAction[1].Type = Str("OpenUri")
        /\ Len(message.PotentialAction[1].Targets) = 1
        /\ message.PotentialAction[1].Targets[1].OS = Str("default")
        /\ LET uri  == message.PotentialAction[1].Targets[1].URI
               base == Parse(flagDashboard.value)
           IN IF ~base.ok THEN uri = Empty
              ELSE /\ Parse(uri).ok
                   /\ Parse(uri).url.Scheme = base.url.Scheme
                   /\ Parse(uri).url.Host = base.url.Host
                   /\ EscapedPath(Parse(uri).url) = URIPath(event)

\* C10: once a response has been received, whatever its status code, run
\* returns nil and the process exits with status 0.
C10_AnyResponseIsSuccess ==
    resp # Nil =>
        /\ Returned
        /\ err = Nil
        /\ Terminated => exitCode = 0 /\ ~logged

C10_Witness ==
    /\ Terminated /\ resp # Nil /\ resp.StatusCode = 500
    /\ err = Nil /\ exitCode = 0

=============================================================================
